---- MODULE Spec2Model ----
(***************************************************************************)
(* scripts/tts_generator.py: generate_audio and its two helpers,           *)
(* check_ffmpeg and adjust_speed_with_ffmpeg.                              *)
(*                                                                         *)
(* One invocation of generate_audio is a process that walks through the    *)
(* statements of the function; the file system is shared by all            *)
(* invocations.  The behaviour of the collaborators (gTTS, the ffmpeg and  *)
(* cp subprocesses, the operating system) is a stub drawn with the         *)
(* request: `world' says how each external call of the invocation ends.    *)
(***************************************************************************)
EXTENDS Integers, Sequences, FiniteSets, TLC

VARIABLES procs, proc, fs, fs0

vars == <<procs, proc, fs, fs0>>

(* ------------------------------ bounds -------------------------------- *)

\* longest text drawn for a request
MaxLen == 2
\* most external calls of one invocation that the stub lets fail
MaxFaults == 3

(* ------------------------------- data --------------------------------- *)

Whitespace == {" ", "\t"}
Chars == Whitespace \cup {"a"}
Texts == UNION {[1..n -> Chars] : n \in 0..MaxLen}

\* a path is the sequence of its components; <<>> is the empty string ""
NoPath == <<>>
OutputPaths ==
    {<<"a.mp3">>, <<"out", "a.mp3">>, <<"out", "b.mp3">>, <<"out", "sub", "a.mp3">>}
AudioTypes == {"word", "sentence"}
\* speed_factor in tenths: 10 is 1.0, 12 is the default 1.2
SpeedFactors == {10, 12}
Requests ==
    [text : Texts, output_path : OutputPaths, audio_type : AudioTypes,
     speed_factor : SpeedFactors]

\* file contents
EmptyFile == [kind |-> "empty", text |-> <<>>, slow |-> FALSE, factor |-> 10]
RawAudio(text, slow) == [kind |-> "raw", text |-> text, slow |-> slow, factor |-> 10]
Stretched(c, f) == [c EXCEPT !.kind = "stretched", !.factor = f]
getsize(c) == IF c.kind = "empty" THEN 0 ELSE 1

\* how each external call of one invocation ends
Worlds ==
    [mkdir : {"ok", "denied"},
     ctor : {"ok", "raise"},
     probe : {"ok", "nonzero", "missing", "oserror"},
     mktemp : {"ok", "raise"},
     synth : [1..2 -> {"ok", "empty", "raise"}],
     stretch : {"ok", "nonzero", "raise"},
     unlink : {"ok", "fail"},
     stat : {"ok", "raise"}]
B2N(b) == IF b THEN 1 ELSE 0
Faults(w) ==
    B2N(w.mkdir # "ok") + B2N(w.ctor # "ok") + B2N(w.probe # "ok")
    + B2N(w.mktemp # "ok") + B2N(w.synth[1] # "ok") + B2N(w.synth[2] # "ok")
    + B2N(w.stretch # "ok") + B2N(w.unlink # "ok") + B2N(w.stat # "ok")
FaultWorlds(n) == {w \in Worlds : Faults(w) <= n}

NoExc == [type |-> "none", at |-> "none"]
\* the exception classes the calls raise; all derive from Exception
ExceptionClasses ==
    {"FileNotFoundError", "FileExistsError", "PermissionError",
     "NotADirectoryError", "OSError", "gTTSError", "ValueError",
     "CalledProcessError"}

(* ------------------------- pure helper functions ---------------------- *)

RECURSIVE lstrip(_)
lstrip(s) ==
    IF s = <<>> THEN s
    ELSE IF Head(s) \in Whitespace THEN lstrip(Tail(s)) ELSE s

RECURSIVE rstrip(_)
rstrip(s) ==
    IF s = <<>> THEN s
    ELSE IF s[Len(s)] \in Whitespace THEN rstrip(SubSeq(s, 1, Len(s) - 1)) ELSE s

\* a strip that leaves the text as it is
strip_noop(s) == s

\* str.strip()
strip(s) == rstrip(lstrip(s))

\* os.path.dirname: "out/a.mp3" -> "out", "a.mp3" -> ""
dirname(path) == SubSeq(path, 1, Len(path) - 1)

\* os.path.exists: the empty string names nothing
exists(f, path) == path # NoPath /\ (path \in f.dirs \/ path \in DOMAIN f.files)

Prefixes(d) == {SubSeq(d, 1, n) : n \in 1..Len(d)}

\* os.makedirs(d) without exist_ok: [exc, fs]
makedirs(f, d, w) ==
    IF d = NoPath
    THEN [exc |-> "FileNotFoundError", fs |-> f]
    ELSE IF w.mkdir = "denied"
    THEN [exc |-> "PermissionError", fs |-> f]
    ELSE IF d \in f.dirs \/ d \in DOMAIN f.files
    THEN [exc |-> "FileExistsError", fs |-> f]
    ELSE IF Prefixes(d) \cap DOMAIN f.files # {}
    THEN [exc |-> "NotADirectoryError", fs |-> f]
    ELSE [exc |-> "none", fs |-> [f EXCEPT !.dirs = @ \cup Prefixes(d)]]

WriteFile(f, path, c) == [f EXCEPT !.files = (path :> c) @@ @]
RemoveFile(f, path) ==
    [f EXCEPT !.files = [q \in (DOMAIN @) \ {path} |-> @[q]]]
ParentOk(f, path) == dirname(path) = NoPath \/ dirname(path) \in f.dirs

(* ------------------------- the except clause -------------------------- *)

\* an except clause that catches only the OSError family
except_OSError(st, e) ==
    IF e.type \in {"FileNotFoundError", "FileExistsError", "PermissionError",
                   "NotADirectoryError", "OSError"}
    THEN [st EXCEPT !.pc = "done", !.result = "false", !.exc = e,
                    !.raised = @ \cup {e.at},
                    !.log = @ \cup {"Error generating TTS"}]
    ELSE [st EXCEPT !.pc = "done", !.result = "raised", !.exc = e,
                    !.raised = @ \cup {e.at}]

\* generate_audio's `except Exception as e': log the error, return False
except_Exception(st, e) ==
    IF e.type \in ExceptionClasses
    THEN [st EXCEPT !.pc = "done", !.result = "false", !.exc = e,
                    !.raised = @ \cup {e.at},
                    !.log = @ \cup {"Error generating TTS"}]
    ELSE [st EXCEPT !.pc = "done", !.result = "raised", !.exc = e,
                    !.raised = @ \cup {e.at}]

Exc(type, at) == [type |-> type, at |-> at]

(* ------------------------------ helpers ------------------------------- *)

\* check_ffmpeg(): [ret, exc, log, raised]; subprocess.run(check=True) raises
\* CalledProcessError on a non-zero exit and FileNotFoundError on a missing
\* executable, both caught here (raised: an exception was caught); any other
\* exception (exc) leaves the function
check_ffmpeg(w) ==
    CASE w.probe = "ok" -> [ret |-> TRUE, exc |-> "none", log |-> {}, raised |-> FALSE]
      [] w.probe \in {"nonzero", "missing"} ->
            [ret |-> FALSE, exc |-> "none", log |-> {"FFmpeg not found"},
             raised |-> TRUE]
      [] OTHER -> [ret |-> FALSE, exc |-> "PermissionError", log |-> {},
                   raised |-> FALSE]

\* adjust_speed_with_ffmpeg(input_file, output_file, speed_factor):
\* [ret, fs, log, filter, cp, raised]; filter and cp count the subprocesses
\* started, raised says that the except clause of the function caught something
adjust_speed_with_ffmpeg(f, input_file, output_file, speed_factor, w) ==
    IF speed_factor = 10
    THEN IF w.stretch = "ok" /\ input_file \in DOMAIN f.files /\ ParentOk(f, output_file)
         THEN [ret |-> TRUE, fs |-> WriteFile(f, output_file, f.files[input_file]),
               log |-> {}, filter |-> 0, cp |-> 1, raised |-> FALSE]
         ELSE [ret |-> FALSE, fs |-> f, log |-> {"Error adjusting speed with FFmpeg"},
               filter |-> 0, cp |-> 1, raised |-> TRUE]
    ELSE IF w.stretch = "raise"
    THEN [ret |-> FALSE, fs |-> f, log |-> {"Error adjusting speed with FFmpeg"},
          filter |-> 1, cp |-> 0, raised |-> TRUE]
    ELSE IF /\ w.stretch = "ok"
            /\ input_file \in DOMAIN f.files
            /\ getsize(f.files[input_file]) > 0
            /\ ParentOk(f, output_file)
    THEN [ret |-> TRUE,
          fs |-> WriteFile(f, output_file, Stretched(f.files[input_file], speed_factor)),
          log |-> {"Successfully adjusted audio speed"}, filter |-> 1, cp |-> 0,
          raised |-> FALSE]
    ELSE [ret |-> FALSE, fs |-> f, log |-> {"FFmpeg error"}, filter |-> 1, cp |-> 0,
          raised |-> FALSE]

\* tts.save(path): the next synthesis request of the invocation; [st, fs, exc]
tts_save(st, f, path) ==
    LET n == st.calls.synth + 1
        st1 == [st EXCEPT !.calls.synth = n]
        how == st.world.synth[n]
    IN  IF ~ParentOk(f, path)
        THEN [st |-> st1, fs |-> f, exc |-> "FileNotFoundError"]
        ELSE IF how = "raise"
        THEN [st |-> st1, fs |-> f, exc |-> "gTTSError"]
        ELSE IF how = "empty"
        THEN [st |-> st1, fs |-> WriteFile(f, path, EmptyFile), exc |-> "none"]
        ELSE [st |-> st1,
              fs |-> WriteFile(f, path, RawAudio(st.text, st.tts = "slow")),
              exc |-> "none"]

\* tempfile.NamedTemporaryFile picks a name no other file has
TempNames == <<"tmp1.mp3", "tmp2.mp3">>
TempPath(id) == <<"tmp", TempNames[id]>>

(* --------------------- the statements of generate_audio --------------- *)

Out(st, f) == [st |-> st, fs |-> f]
Log(st, msgs) == [st EXCEPT !.log = @ \cup msgs]

\* text = text.strip(); if not text: log, return False
do_strip(st, f) ==
    LET t == strip(st.req.text)
    IN  IF t = <<>>
        THEN Out([Log(st, {"Empty text provided"}) EXCEPT
                      !.text = t, !.result = "false", !.pc = "done"], f)
        ELSE Out([st EXCEPT !.text = t, !.pc = "chkdir"], f)

\* output_dir = os.path.dirname(output_path); if not os.path.exists(output_dir):
do_chkdir(st, f) ==
    LET d == dirname(st.req.output_path)
    IN  Out([st EXCEPT !.output_dir = d,
                       !.pc = IF ~exists(f, d) THEN "makedirs" ELSE "ctor"], f)

\* os.makedirs(output_dir)
do_makedirs(st, f) ==
    LET r == makedirs(f, st.output_dir, st.world)
    IN  IF r.exc # "none"
        THEN Out(except_Exception(st, Exc(r.exc, "makedirs")), f)
        ELSE Out([st EXCEPT !.pc = "ctor"], r.fs)

\* tts = gTTS(text=text, lang='en', slow=(audio_type == "word"))
do_ctor(st, f) ==
    IF st.world.ctor = "raise"
    THEN Out(except_Exception(st, Exc("ValueError", "gTTS")), f)
    ELSE Out([st EXCEPT !.tts = IF st.req.audio_type = "word" THEN "slow" ELSE "normal",
                        !.pc = "probe"], f)

\* a branch that takes the speed-adjusted path whenever ffmpeg is there
speed_path_ignoring_factor(ffmpeg_available, speed_factor) == ffmpeg_available

\* if ffmpeg_available and speed_factor != 1.0:
speed_path(ffmpeg_available, speed_factor) == ffmpeg_available /\ speed_factor # 10

\* ffmpeg_available = check_ffmpeg(), and the branch on it
do_probe(st, f) ==
    LET r == check_ffmpeg(st.world)
        st1 == [Log(st, r.log) EXCEPT
                    !.calls.probe = @ + 1,
                    !.raised = IF r.raised THEN @ \cup {"check_ffmpeg"} ELSE @]
    IN  IF r.exc # "none"
        THEN Out(except_Exception(st1, Exc(r.exc, "check_ffmpeg")), f)
        ELSE Out([st1 EXCEPT !.ffmpeg_available = r.ret,
                             !.pc = IF speed_path(r.ret, st.req.speed_factor)
                                    THEN "mktemp" ELSE "save_out"], f)

\* with tempfile.NamedTemporaryFile(suffix='.mp3', delete=False) as temp_file:
do_mktemp(st, f) ==
    IF st.world.mktemp = "raise"
    THEN Out(except_Exception(st, Exc("OSError", "NamedTemporaryFile")), f)
    ELSE Out([st EXCEPT !.temp_path = TempPath(st.id), !.pc = "save_tmp"],
             WriteFile(f, TempPath(st.id), EmptyFile))

\* tts.save(temp_path)
do_save_tmp(st, f) ==
    LET r == tts_save(st, f, st.temp_path)
    IN  IF r.exc # "none"
        THEN Out(except_Exception(r.st, Exc(r.exc, "save_tmp")), r.fs)
        ELSE Out([r.st EXCEPT !.pc = "adjust"], r.fs)

\* success = adjust_speed_with_ffmpeg(temp_path, output_path, speed_factor)
do_adjust(st, f) ==
    LET r == adjust_speed_with_ffmpeg(f, st.temp_path, st.req.output_path,
                                      st.req.speed_factor, st.world)
    IN  Out([Log(st, r.log) EXCEPT !.success = r.ret,
                                   !.calls.filter = @ + r.filter,
                                   !.calls.cp = @ + r.cp,
                                   !.raised = IF r.raised THEN @ \cup {"adjust"} ELSE @,
                                   !.pc = "unlink"], r.fs)

\* try: os.unlink(temp_path) except: pass
do_unlink(st, f) ==
    IF st.world.unlink = "fail" \/ st.temp_path \notin DOMAIN f.files
    THEN Out([st EXCEPT !.raised = @ \cup {"unlink"}, !.pc = "fallback"], f)
    ELSE Out([st EXCEPT !.pc = "fallback"], RemoveFile(f, st.temp_path))

\* if not success: log a warning, tts.save(output_path)
do_fallback(st, f) ==
    IF st.success
    THEN Out([st EXCEPT !.pc = "verify"], f)
    ELSE LET st1 == Log(st, {"Speed adjustment failed, using original audio"})
             r == tts_save(st1, f, st.req.output_path)
         IN  IF r.exc # "none"
             THEN Out(except_Exception(r.st, Exc(r.exc, "save_fallback")), r.fs)
             ELSE Out([r.st EXCEPT !.pc = "verify"], r.fs)

\* else: tts.save(output_path)
do_save_out(st, f) ==
    LET r == tts_save(st, f, st.req.output_path)
    IN  IF r.exc # "none"
        THEN Out(except_Exception(r.st, Exc(r.exc, "save_out")), r.fs)
        ELSE Out([r.st EXCEPT !.pc = "verify"], r.fs)

\* a check that is content with the file being there
output_exists(f, path) == exists(f, path)

\* os.path.exists(output_path) and os.path.getsize(output_path) > 0
output_ok(f, path) == exists(f, path) /\ getsize(f.files[path]) > 0

\* the check of the output file, and the return value
do_verify(st, f) ==
    IF st.world.stat = "raise"
    THEN Out(except_Exception(st, Exc("OSError", "verify")), f)
    ELSE IF output_ok(f, st.req.output_path)
    THEN Out([Log(st, {"Successfully generated"}) EXCEPT
                  !.result = "true", !.pc = "done"], f)
    ELSE Out([Log(st, {"Failed to create audio file"}) EXCEPT
                  !.result = "false", !.pc = "done"], f)

\* the statement an invocation is at, executed
step(st, f) ==
    CASE st.pc = "strip" -> do_strip(st, f)
      [] st.pc = "chkdir" -> do_chkdir(st, f)
      [] st.pc = "makedirs" -> do_makedirs(st, f)
      [] st.pc = "ctor" -> do_ctor(st, f)
      [] st.pc = "probe" -> do_probe(st, f)
      [] st.pc = "mktemp" -> do_mktemp(st, f)
      [] st.pc = "save_tmp" -> do_save_tmp(st, f)
      [] st.pc = "adjust" -> do_adjust(st, f)
      [] st.pc = "unlink" -> do_unlink(st, f)
      [] st.pc = "fallback" -> do_fallback(st, f)
      [] st.pc = "save_out" -> do_save_out(st, f)
      [] st.pc = "verify" -> do_verify(st, f)
      [] OTHER -> Out(st, f)

\* generate_audio run from start to return with nothing else running
RECURSIVE generate_audio(_, _)
generate_audio(st, f) ==
    IF st.pc = "done" THEN Out(st, f)
    ELSE LET r == step(st, f) IN generate_audio(r.st, r.fs)

(* ------------------------------- state -------------------------------- *)

\* an invocation about to execute its first statement
NewCall(id, req, w) ==
    [id |-> id, req |-> req, world |-> w, pc |-> "strip", text |-> req.text,
     output_dir |-> NoPath, tts |-> "none", ffmpeg_available |-> FALSE,
     temp_path |-> NoPath, success |-> FALSE, result |-> "none", exc |-> NoExc,
     raised |-> {},
     calls |-> [probe |-> 0, synth |-> 0, filter |-> 0, cp |-> 0], log |-> {}]

\* the file system before the call: the temporary directory, and the
\* directories in `dirs'
NewFs(dirs) == [dirs |-> {<<"tmp">>} \cup dirs, files |-> <<>>]
InitialDirs == {{}, {<<"out">>}}

\* one invocation
Init ==
    \E req \in Requests, w \in FaultWorlds(MaxFaults), dirs \in InitialDirs :
        /\ procs = {1}
        /\ proc = [p \in {1} |-> NewCall(p, req, w)]
        /\ fs = NewFs(dirs)
        /\ fs0 = NewFs(dirs)

\* two invocations at once, writing to distinct output paths
ConcRequests ==
    {r \in Requests : r.text = <<"a">> /\ r.audio_type = "word" /\ Len(r.output_path) > 1}
ConcWorlds == {w \in FaultWorlds(1) : w.mkdir = "ok" /\ w.ctor = "ok" /\ w.stat = "ok"
                                      /\ w.mktemp = "ok" /\ w.synth[2] = "ok"}
InitConc ==
    \E r1 \in ConcRequests, r2 \in ConcRequests, w1 \in ConcWorlds, w2 \in ConcWorlds,
       dirs \in InitialDirs :
        /\ r1.output_path # r2.output_path
        /\ procs = {1, 2}
        /\ proc = [p \in {1, 2} |-> IF p = 1 THEN NewCall(1, r1, w1) ELSE NewCall(2, r2, w2)]
        /\ fs = NewFs(dirs)
        /\ fs0 = NewFs(dirs)

(* ------------------------------ actions ------------------------------- *)

Do(p, r) ==
    /\ proc' = [proc EXCEPT ![p] = r.st]
    /\ fs' = r.fs
    /\ UNCHANGED <<procs, fs0>>

StripText(p) == proc[p].pc = "strip" /\ Do(p, do_strip(proc[p], fs))
CheckDir(p) == proc[p].pc = "chkdir" /\ Do(p, do_chkdir(proc[p], fs))
MakeDirs(p) == proc[p].pc = "makedirs" /\ Do(p, do_makedirs(proc[p], fs))
ConfigureTTS(p) == proc[p].pc = "ctor" /\ Do(p, do_ctor(proc[p], fs))
CheckFfmpeg(p) == proc[p].pc = "probe" /\ Do(p, do_probe(proc[p], fs))
MakeTemp(p) == proc[p].pc = "mktemp" /\ Do(p, do_mktemp(proc[p], fs))
SaveTemp(p) == proc[p].pc = "save_tmp" /\ Do(p, do_save_tmp(proc[p], fs))
AdjustSpeed(p) == proc[p].pc = "adjust" /\ Do(p, do_adjust(proc[p], fs))
Cleanup(p) == proc[p].pc = "unlink" /\ Do(p, do_unlink(proc[p], fs))
Fallback(p) == proc[p].pc = "fallback" /\ Do(p, do_fallback(proc[p], fs))
SaveDirect(p) == proc[p].pc = "save_out" /\ Do(p, do_save_out(proc[p], fs))
VerifyOutput(p) == proc[p].pc = "verify" /\ Do(p, do_verify(proc[p], fs))

Next ==
    \/ \E p \in procs : StripText(p)
    \/ \E p \in procs : CheckDir(p)
    \/ \E p \in procs : MakeDirs(p)
    \/ \E p \in procs : ConfigureTTS(p)
    \/ \E p \in procs : CheckFfmpeg(p)
    \/ \E p \in procs : MakeTemp(p)
    \/ \E p \in procs : SaveTemp(p)
    \/ \E p \in procs : AdjustSpeed(p)
    \/ \E p \in procs : Cleanup(p)
    \/ \E p \in procs : Fallback(p)
    \/ \E p \in procs : SaveDirect(p)
    \/ \E p \in procs : VerifyOutput(p)

Spec == Init /\ [][Next]_vars
SpecConc == InitConc /\ [][Next]_vars

(* ------------------------------ claims -------------------------------- *)

Done(p) == proc[p].pc = "done"
AllWhitespace(s) == \A i \in 1..Len(s) : s[i] \in Whitespace
OutputOf(p) == proc[p].req.output_path
Absent == [kind |-> "absent", text |-> <<>>, slow |-> FALSE, factor |-> 10]
FileAt(f, path) == IF path \in DOMAIN f.files THEN f.files[path] ELSE Absent
\* the audio gTTS returns for the request of p
RawOf(p) == RawAudio(strip(proc[p].req.text), proc[p].req.audio_type = "word")
NoCalls == [probe |-> 0, synth |-> 0, filter |-> 0, cp |-> 0]

\* C1: when a call that created a temporary file has returned, that file
\* no longer exists, whatever the result and whichever step failed.
C1_TempFileGone ==
    \A p \in procs :
        (Done(p) /\ proc[p].temp_path # NoPath)
            => proc[p].temp_path \notin DOMAIN fs.files

\* C2: within one invocation the probe, the synthesis and the time-stretch
\* are each attempted at most once, on every path.
C2_NoRetries ==
    \A p \in procs :
        /\ proc[p].calls.probe <= 1
        /\ proc[p].calls.synth <= 1
        /\ proc[p].calls.filter + proc[p].calls.cp <= 1

\* C3: when the synthesis to the temporary file succeeded and the
\* time-stretch failed, the call returns True, the output file holds the
\* unmodified synthesized audio, and the warning is logged.
C3_FallbackSucceeds ==
    \A p \in procs :
        ( /\ Done(p)
          /\ proc[p].world.synth[1] = "ok"
          /\ proc[p].world.stat = "ok"
          /\ proc[p].calls.filter = 1
          /\ ~proc[p].success )
        => /\ proc[p].result = "true"
           /\ FileAt(fs, OutputOf(p)) = RawOf(p)
           /\ "Speed adjustment failed, using original audio" \in proc[p].log

\* C4: two invocations at once with distinct output paths: each returns what
\* it returns when run alone from the same file system, and leaves the same
\* output file.
C4_AsIfAlone ==
    \A p \in procs :
        Done(p) =>
            LET alone == generate_audio(NewCall(p, proc[p].req, proc[p].world), fs0)
            IN  /\ proc[p].result = alone.st.result
                /\ FileAt(fs, OutputOf(p)) = FileAt(alone.fs, OutputOf(p))

\* C5: no failure of the version probe leaves check_ffmpeg as an exception,
\* and a call in which only the probe fails returns True.
C5_ProbeIsSoft ==
    \A p \in procs :
        Done(p) =>
            /\ proc[p].exc.at # "check_ffmpeg"
            /\ ( /\ proc[p].world.probe # "ok"
                 /\ Faults(proc[p].world) = 1
                 /\ ~AllWhitespace(proc[p].req.text)
                 /\ Len(OutputOf(p)) > 1 )
               => proc[p].result = "true"

\* C6: for a text that is not blank and any output path, the directory step
\* does not fail (the operating system permitting), the parent directory
\* exists after it, and synthesis is then attempted.
C6_DirectoryStep ==
    \A p \in procs :
        (Done(p) /\ ~AllWhitespace(proc[p].req.text) /\ proc[p].world.mkdir = "ok")
        => /\ proc[p].exc.at # "makedirs"
           /\ ParentOk(fs, OutputOf(p))
           /\ (Faults(proc[p].world) = 0 => proc[p].calls.synth >= 1)

\* C7: for an empty or all-whitespace text the call returns False and does
\* nothing else: no file or directory is created and no probe, synthesis or
\* time-stretch is attempted.
C7_BlankText ==
    \A p \in procs :
        AllWhitespace(proc[p].req.text)
        => /\ fs = fs0
           /\ proc[p].calls = NoCalls
           /\ proc[p].temp_path = NoPath
           /\ proc[p].pc \in {"strip", "done"}
           /\ Done(p) => /\ proc[p].result = "false"
                         /\ "Empty text provided" \in proc[p].log

C7_Witness ==
    \E p \in procs :
        /\ Done(p)
        /\ Len(proc[p].req.text) = MaxLen
        /\ AllWhitespace(proc[p].req.text)
        /\ ~ParentOk(fs0, OutputOf(p))

\* C8: a call that returned True leaves a file of size > 0 at output_path,
\* and True is returned by the check of the output file only.
C8_TrueMeansOutput ==
    \A p \in procs :
        proc[p].result = "true"
        => /\ Done(p)
           /\ OutputOf(p) \in DOMAIN fs.files
           /\ getsize(fs.files[OutputOf(p)]) > 0
           /\ "Successfully generated" \in proc[p].log
           /\ proc[p].exc = NoExc

C8_Witness ==
    \E p \in procs :
        /\ proc[p].result = "true"
        /\ proc[p].calls.filter = 1
        /\ ~proc[p].success

\* where the failure raised at step s was logged and made the function that
\* caught it return False
Handled(p, s) ==
    CASE s = "check_ffmpeg" /\ proc[p].exc.at # s ->
            "FFmpeg not found" \in proc[p].log /\ ~proc[p].ffmpeg_available
      [] s = "adjust" ->
            "Error adjusting speed with FFmpeg" \in proc[p].log /\ ~proc[p].success
      [] OTHER ->
            "Error generating TTS" \in proc[p].log /\ proc[p].result = "false"

\* C9 as stated: no exception leaves generate_audio, and a failure raised at
\* any step, the deletion of the temporary file included, is caught, logged
\* and turned into a False return value.
C9_EveryFailureLoggedAndFalse ==
    \A p \in procs :
        /\ proc[p].result # "raised"
        /\ Done(p) => \A s \in proc[p].raised : Handled(p, s)

\* C9 as amended: no exception leaves generate_audio; a failure raised at any
\* step other than the deletion of the temporary file is caught, logged and
\* turned into a False return value of the function that caught it, and a
\* failure of the deletion is swallowed without a log line and without
\* changing the result.
C9_NeverPropagates ==
    \A p \in procs :
        /\ proc[p].result # "raised"
        /\ Done(p) => /\ proc[p].result \in {"true", "false"}
                      /\ \A s \in proc[p].raised \ {"unlink"} : Handled(p, s)
        /\ proc[p].exc # NoExc => /\ Done(p)
                                  /\ proc[p].result = "false"
                                  /\ "Error generating TTS" \in proc[p].log

C9_Witness ==
    \E p \in procs :
        /\ Done(p)
        /\ proc[p].exc.type = "gTTSError"
        /\ proc[p].exc.at = "save_fallback"
        /\ "unlink" \in proc[p].raised

\* C10: the time-stretch is invoked only when the probe reported ffmpeg
\* available and speed_factor is not 1.0; otherwise no filter and no copy is
\* started, no temporary file is created, and a call that returns True leaves
\* exactly the raw synthesized audio at output_path.
C10_StretchOnlyWhenAsked ==
    \A p \in procs :
        LET asked == proc[p].ffmpeg_available /\ proc[p].req.speed_factor # 10
        IN  /\ proc[p].calls.filter > 0 => asked
            /\ ~asked => /\ proc[p].calls.filter = 0
                         /\ proc[p].calls.cp = 0
                         /\ proc[p].temp_path = NoPath
                         /\ TempPath(proc[p].id) \notin DOMAIN fs.files
                         /\ proc[p].result = "true"
                                => FileAt(fs, OutputOf(p)) = RawOf(p)

C10_Witness ==
    \E p \in procs :
        /\ proc[p].result = "true"
        /\ proc[p].ffmpeg_available
        /\ proc[p].req.speed_factor = 10

====
